---- MODULE Spec2Model ----
(***************************************************************************)
(* Model of src/src/lib.rs: the Hindmarsh-Rose plugin instance, its        *)
(* configuration handler, its per-tick integrator and the table-driven     *)
(* step-size negotiator.                                                   *)
(*                                                                         *)
(* Number representation.  The program computes in f64; TLC computes in    *)
(* 32-bit integers.  The model keeps every quantity as an exact decimal:   *)
(*   - x, y, z, e, mu, s, vh, input_syn: integers counting 1/Unit          *)
(*     (thousandths); products are rounded to the nearest thousandth;      *)
(*   - dt and the dts table: integers counting 1/DtUnit (1e-4 s), which    *)
(*     represents every table step size and the default 0.0015 exactly;    *)
(*   - the pts table: integer part and millionths, exactly as written in   *)
(*     the source (six decimals);                                          *)
(*   - burst_duration, period_seconds and everything derived from them     *)
(*     (freq, pts_live, aux): exact rationals num/den * 10^exp10;          *)
(*   - usize: naturals, with usize::MAX standing for every value the       *)
(*     saturating cast `as usize` clips (TLC's largest integer is used     *)
(*     for it; the model only ever compares s_points with 1 and 10000).    *)
(* Comparisons of the negotiator (pts[i] > aux, the near-integer test, the *)
(* rounding of s_points) are decided exactly by cross-multiplication.      *)
(* The one f64 effect the model keeps is overflow of pts_burst / pts_live  *)
(* to +inf (see RatioIsInf).                                               *)
(***************************************************************************)
EXTENDS Integers, Sequences, FiniteSets, TLC

VARIABLES
    x, y, z,            \* lib.rs:10-12   state
    input_syn,          \* lib.rs:13      external input, frozen during a tick
    e, mu, s, vh,       \* lib.rs:14-17   model parameters
    dt,                 \* lib.rs:18      integration step, in 1/DtUnit
    burst_duration,     \* lib.rs:19      rational record
    s_points,           \* lib.rs:20      usize
    period_seconds,     \* lib.rs:21      rational record
    cfg_x, cfg_y, cfg_z,\* lib.rs:22-24   last applied configuration triple
    hung,               \* TRUE when a call entered and never returned
    lastDoc,            \* index in Docs of the last set_config document (0: none)
    streak,             \* how many times in a row that document was just applied
                        \* (0 when the last call was not set_config)
    nCfg, nTick,        \* calls made so far (bounded)
    applied,            \* integrator applications made by the last process call
    neg                 \* what the last run of select_dt_neuron_model did

vars == << x, y, z, input_syn, e, mu, s, vh, dt, burst_duration, s_points,
           period_seconds, cfg_x, cfg_y, cfg_z, hung, lastDoc, streak,
           nCfg, nTick, applied, neg >>

----------------------------------------------------------------------------
(* Bounds of the exploration *)

MaxCfg == 2
MaxTicks == 1

----------------------------------------------------------------------------
(* Scales and numeric helpers *)

Unit == 10^3
DtUnit == 10^4
CoefUnit == 10^4
Million == 10^6

\* a / b rounded to the nearest integer (b > 0)
Rnd(a, b) == (2 * a + b) \div (2 * b)

\* the product of two values counted in 1/Unit
Mul(a, b) == Rnd(a * b, Unit)

\* a rational num/den * 10^exp10 (den > 0)
Q(num, den, exp10) == [num |-> num, den |-> den, exp10 |-> exp10]

\* f64::max(0.0) on a value counted in 1/DtUnit (lib.rs:92)
Max0(a) == IF a < 0 THEN 0 ELSE a

\* usize::MAX, the result of `as usize` on +inf and on every value above it
USIZE_MAX == 2147483647

----------------------------------------------------------------------------
(* The step-size table of set_pts_burst, lib.rs:172-335 *)

dts ==
    << 5, 6, 7, 8, 9, 10, 11, 12, 13, 14, 15, 16,
       18, 20, 22, 25, 28, 29, 30, 31, 32, 33, 34, 35,
       36, 37, 38, 39, 40, 41, 42, 43, 44, 45, 46, 47,
       48, 49, 50, 51, 52, 54, 56, 58, 60, 62, 64, 66,
       68, 70, 72, 74, 77, 80, 83, 86, 89, 92, 96, 100,
       104, 109, 114, 119, 125, 131, 138, 146, 154, 163, 173, 185,
       199, 215, 233, 255, 281, 284, 287, 290, 294, 298, 302, 306,
       310, 314, 318, 322, 326, 330, 334, 339, 344, 349, 354, 359,
       364, 369, 374, 380, 386, 392, 398, 404, 410, 417, 424, 431,
       438, 445, 453, 461, 469, 477, 486, 495, 504, 514, 524, 534,
       545, 556, 568, 580, 593, 606, 620, 634, 649, 665, 682, 699,
       717, 736, 756, 777, 799, 823, 848, 875, 903, 933, 965, 1000 >>

ptsInt ==
    << 577638, 481366, 412599, 357615, 317880, 286092, 259143, 237548, 218869, 203236, 189687, 177634,
       157897, 142001, 129024, 113496, 101304, 97811, 94527, 91478, 88619, 85916, 83389, 81007,
       78743, 76615, 74599, 72676, 70859, 69130, 67476, 65907, 64402, 62971, 61602, 60286,
       59030, 57825, 56664, 55553, 54485, 52463, 50586, 48841, 47211, 45685, 44255, 42914,
       41650, 40459, 39335, 38270, 36778, 35398, 34117, 32926, 31815, 30777, 29493, 28313,
       27223, 25974, 24834, 23790, 22647, 21609, 20513, 19388, 18381, 17365, 16361, 15299,
       14223, 13164, 12147, 11098, 10071, 9965, 9861, 9759, 9626, 9497, 9371, 9248,
       9129, 9012, 8899, 8789, 8681, 8575, 8473, 8348, 8226, 8108, 7994, 7883,
       7774, 7669, 7566, 7447, 7331, 7219, 7110, 7004, 6902, 6786, 6674, 6565,
       6460, 6359, 6247, 6138, 6033, 5932, 5822, 5716, 5614, 5505, 5400, 5299,
       5192, 5089, 4982, 4878, 4772, 4669, 4564, 4463, 4360, 4255, 4149, 4048,
       3946, 3844, 3743, 3641, 3541, 3438, 3336, 3233, 3133, 3032, 2932, 2829 >>

ptsMicro ==
    << 0, 0, 0, 500000, 0, 500000, 333333, 0, 500000, 0, 0, 0,
       0, 833333, 142857, 125000, 555556, 222222, 400000, 200000, 400000, 636364, 636364, 90909,
       583333, 416667, 250000, 0, 76923, 846154, 642857, 357143, 666667, 466667, 533333, 187500,
       250000, 562500, 411765, 294118, 0, 222222, 263158, 842105, 50000, 666667, 818182, 772727,
       739130, 83333, 208333, 680000, 346154, 0, 571429, 517241, 833333, 612903, 939394, 588235,
       638889, 405405, 410256, 268293, 767442, 977778, 166667, 627451, 132075, 719298, 600000, 937500,
       202899, 400000, 123457, 876404, 693878, 282828, 100000, 59406, 242718, 9615, 179245, 672897,
       293578, 981818, 594595, 0, 149123, 896552, 170940, 176471, 809917, 934426, 379032, 15873,
       710938, 348837, 801527, 308271, 525926, 291971, 435714, 816901, 298611, 417808, 355705, 940397,
       987013, 339744, 12579, 592593, 866667, 660714, 777778, 896552, 796610, 541436, 467391, 324468,
       348958, 615385, 75000, 985294, 14354, 633803, 178899, 381166, 214912, 294872, 216667, 296748,
       654762, 764479, 41353, 872263, 583630, 300000, 926421, 951299, 666667, 899696, 320588, 684659 >>

----------------------------------------------------------------------------
(* The vector field and the integrator, lib.rs:98-168 *)

\* the closure f of process (lib.rs:106-115); vs is `vars`, <<x, y, z>>, p the instance
f(vs, p) ==
    LET xx == Mul(vs[1], vs[1])
    IN << vs[2] + 3 * xx - Mul(xx, vs[1]) - Mul(p.vh, vs[3]) + p.e - p.input_syn,
          Unit - 5 * xx - vs[2],
          Mul(p.mu, Mul(p.s, vs[1] + (16 * Unit) \div 10) - Mul(p.vh, vs[3])) >>

\* k[i][j] = dt * r[j] (lib.rs:119, 125, 131, 137, 144, 153)
Stage(h, r) == << Rnd(h * r[1], DtUnit), Rnd(h * r[2], DtUnit), Rnd(h * r[3], DtUnit) >>

\* vs[j] + sum of k[i][j] * c[i], the coefficients counted in 1/CoefUnit
Combine(vs, ks, cs) ==
    LET W(j) == ks[1][j] * cs[1] + ks[2][j] * cs[2] + ks[3][j] * cs[3]
                + ks[4][j] * cs[4] + ks[5][j] * cs[5]
    IN << vs[1] + Rnd(W(1), CoefUnit),
          vs[2] + Rnd(W(2), CoefUnit),
          vs[3] + Rnd(W(3), CoefUnit) >>

Zero3 == << 0, 0, 0 >>

\* one pass of the loop body of process (lib.rs:102-166): six stages and the
\* fifth-order combination; the coefficients are those of the source, to 1e-4
rk_step(vs, h, p) ==
    LET k0 == Stage(h, f(vs, p))
        k1 == Stage(h, f(Combine(vs, << k0, Zero3, Zero3, Zero3, Zero3 >>,
                                 << 2000, 0, 0, 0, 0 >>), p))
        k2 == Stage(h, f(Combine(vs, << k0, k1, Zero3, Zero3, Zero3 >>,
                                 << 750, 2250, 0, 0, 0 >>), p))
        k3 == Stage(h, f(Combine(vs, << k0, k1, k2, Zero3, Zero3 >>,
                                 << 3000, -9000, 12000, 0, 0 >>), p))
        k4 == Stage(h, f(Combine(vs, << k0, k1, k2, k3, Zero3 >>,
                                 << 750, 6750, -6000, 7500, 0 >>), p))
        k5 == Stage(h, f(Combine(vs, << k0, k1, k2, k3, k4 >>,
                                 << 6605, 25000, -51852, 38889, -8642 >>), p))
    IN Combine(vs, << k0, k2, k3, k4, k5 >>, << 988, 3968, 2315, 3086, -357 >>)

\* the count without `.min(10_000)`
StepsUncapped(sp) == IF sp > 1 THEN sp ELSE 1

\* the number of passes of the loop of process (lib.rs:100)
StepsOf(sp) ==
    LET capped == IF sp < 10000 THEN sp ELSE 10000
    IN IF capped > 1 THEN capped ELSE 1

\* `for _ in 0..steps` (lib.rs:101): cnt successive applications of rk_step.
\* The range is halved so that the evaluation depth stays logarithmic, and the
\* first half is evaluated before the second starts.  rk_step is a function of
\* its arguments alone, so once an application returns its argument every later
\* one does too: `still` records that, and the passes that remain are then not
\* recomputed.
RECURSIVE Iterate(_, _, _, _)
Iterate(vs, cnt, h, p) ==
    IF cnt = 0 THEN [state |-> vs, still |-> FALSE]
    ELSE IF cnt = 1
         THEN LET nxt == rk_step(vs, h, p)
              IN [state |-> nxt, still |-> nxt = vs]
         ELSE LET half == cnt \div 2
                  mid == Iterate(vs, half, h, p)
              IN IF mid.still THEN mid ELSE Iterate(mid.state, cnt - half, h, p)

----------------------------------------------------------------------------
(* The negotiator, lib.rs:171-380 *)

TableLen == Len(ptsInt)

\* f64::MAX_10_EXP: f64::MAX = 1.797...e308 < 2 * 10^308
F64_MAX_10_EXP == 308

\* 1.0 / q for q > 0 (lib.rs:56)
Recip(q) == Q(q.den, q.num, -q.exp10)

\* a * b (lib.rs:59, 336)
MulQ(a, b) == Q(a.num * b.num, a.den * b.den, a.exp10 + b.exp10)

\* the same rational with its power of ten folded into num or den, when that
\* leaves both in the range the comparisons below compute in
Fold(q) ==
    IF q.exp10 \in 0..3 THEN Q(q.num * 10^q.exp10, q.den, 0)
    ELSE IF q.exp10 \in -3..-1 THEN Q(q.num, q.den * 10^(-q.exp10), 0)
    ELSE q

\* ip.mp * den as whole + rest / 10^6, for a table value with integer part
\* ip and millionths mp
Times(ip, mp, den) ==
    [whole |-> ip * den + (mp * den) \div Million, rest |-> (mp * den) % Million]

\* pts[i] * den
PtsTimes(i, den) == Times(ptsInt[i], ptsMicro[i], den)

\* `>=` in place of `>`
AboveOrEqual(pt, a) == pt.whole >= a

\* whole + rest / 10^6 > a
Above(pt, a) == pt.whole > a \/ (pt.whole = a /\ pt.rest > 0)

\* pts[i] > aux, for aux = a / den (lib.rs:350, 368)
Exceeds(i, a, den) == Above(PtsTimes(i, den), a)

\* `for i in (0..pts.len()).rev()` with its break (lib.rs:349-360, 367-373),
\* over the entries lo..hi: the index of the first entry, from hi down, that
\* exceeds aux; 0 when none does.  The upper half is scanned first and the
\* lower half only when the upper half holds no such entry.
RECURSIVE ScanRange(_, _, _, _)
OrBelow(up, lo, hi, a, den) == IF up # 0 THEN up ELSE ScanRange(lo, hi, a, den)

ScanRange(lo, hi, a, den) ==
    IF lo = hi THEN (IF Exceeds(lo, a, den) THEN lo ELSE 0)
    ELSE OrBelow(ScanRange((lo + hi) \div 2 + 1, hi, a, den),
                 lo, (lo + hi) \div 2, a, den)

\* the scan over the whole table
ScanDown(a, den) == ScanRange(1, TableLen, a, den)

\* the loop bounded by the last entry of the table instead of the first
LoopCondLast(a, den) == Exceeds(TableLen, a, den)

\* `while aux < pts[0]` (lib.rs:346)
LoopCond(a, den) == Exceeds(1, a, den)

\* pts_burst / pts_live overflows f64 (lib.rs:353-354): with pts_live =
\* num/den * 10^exp10, the quotient is at least ptsInt[i] * den / num *
\* 10^(-exp10), which is at least 2 * 10^308 > f64::MAX under the condition
\* below.  The quotient is then +inf, its fract() is inf - inf = NaN, and
\* `fract <= 0.1 * intp` is false.
RatioIsInf(i, pl) ==
    /\ pl.exp10 <= -F64_MAX_10_EXP
    /\ ptsInt[i] * pl.den >= 2 * pl.num

\* `fract <= 0.1 * intp` (lib.rs:353-355) for the quotient (whole + rest /
\* 10^6) / num: intp = whole \div num, fract = (whole % num + rest / 10^6) / num
NearIntegerOf(pt, num) ==
    10 * (pt.whole % num) + (pt.rest + 99999) \div 100000 <= (pt.whole \div num) * num

\* the acceptance test of candidate i for pts_live = num / den
NearInteger(i, pl) == NearIntegerOf(PtsTimes(i, pl.den), pl.num)

\* the while loop (lib.rs:346-364) from the state (aux = a / den, factor, the
\* candidate recorded so far), for pts_live = num / den; Pass is the body after
\* `aux = pts_live * factor` (a2) with the outcome i of its scan
RECURSIVE Search(_, _, _, _, _)
RECURSIVE Pass(_, _, _, _, _, _)
Search(pl, a, factor, sel, iters) ==
    IF ~LoopCond(a, pl.den)
    THEN [aux |-> a, sel |-> sel, flag |-> FALSE, iters |-> iters, hangs |-> FALSE]
    ELSE Pass(pl, pl.num * factor, factor + 1, sel, iters + 1,
              ScanDown(pl.num * factor, pl.den))

Pass(pl, a2, factor, sel, iters, i) ==
    IF i = 0 THEN Search(pl, a2, factor, sel, iters)
    ELSE IF NearInteger(i, pl)
         THEN [aux |-> a2, sel |-> i, flag |-> TRUE, iters |-> iters, hangs |-> FALSE]
         ELSE Search(pl, a2, factor, i, iters)

\* the while loop for a pts_live = num/den * 10^exp10 with exp10 <= -308.
\* factor is an f64 that `factor += 1.0` leaves unchanged from 2^53 < 10^16
\* on, so aux = pts_live * factor stays below num * 10^-292, which is below
\* every entry of the table (aux is recorded as 0 here).  Every pass therefore
\* records the same candidate i, the first entry above 0 from the last one
\* down; when the quotient of that candidate overflows (RatioIsInf) the flag
\* is never set, and `aux < pts[0]` never fails: the loop does not exit.
TinyPass(pl, i) ==
    [aux |-> 0, sel |-> i, flag |-> ~RatioIsInf(i, pl), iters |-> 1,
     hangs |-> RatioIsInf(i, pl)]

SearchTiny(pl) == TinyPass(pl, ScanDown(0, 1))

\* the loop, by the magnitude of pts_live
Loop(pl) ==
    CASE pl.exp10 = 0 -> Search(pl, pl.num, 1, 0, 0)
      [] pl.exp10 <= -F64_MAX_10_EXP /\ RatioIsInf(TableLen, pl) -> SearchTiny(pl)

\* selected_dt (lib.rs:343, 351, 369): -1.0 until a candidate is recorded
SelectedDt(sel) == IF sel = 0 THEN -DtUnit ELSE dts[sel]

\* the write without its guard
WriteDtAlways(sel, dtIn) == SelectedDt(sel)

\* `if selected_dt > 0.0 { *dt = selected_dt; }` (lib.rs:376-378)
WriteDt(sel, dtIn) == IF SelectedDt(sel) > 0 THEN SelectedDt(sel) ELSE dtIn

\* the fallback scan (lib.rs:366-374) after the loop ended as lp: the index it
\* selects, 0 when it does not run or selects nothing
Fallback(pl, lp) == IF lp.flag \/ lp.hangs THEN 0 ELSE ScanDown(lp.aux, pl.den)

\* lib.rs:376-379 after the loop ended as lp and the fallback selected fb.
\* ret is the index of the entry whose pts is returned as pts_burst, 0 for the
\* sentinel -1.0.
Conclude(pl, dtIn, lp, fb) ==
    [ran |-> TRUE, hangs |-> lp.hangs, pts_live |-> pl, dt_in |-> dtIn,
     aux |-> lp.aux, flag |-> lp.flag, iters |-> lp.iters,
     loop_sel |-> lp.sel, fallback_sel |-> fb,
     ret |-> IF fb # 0 THEN fb ELSE lp.sel,
     dt_out |-> IF lp.hangs THEN dtIn
                ELSE WriteDt(IF fb # 0 THEN fb ELSE lp.sel, dtIn)]

AfterLoop(pl, dtIn, lp) == Conclude(pl, dtIn, lp, Fallback(pl, lp))

\* select_dt_neuron_model (lib.rs:339-380)
select_dt_neuron_model(pl, dtIn) == AfterLoop(pl, dtIn, Loop(pl))

\* set_pts_burst (lib.rs:171-337)
set_pts_burst(bd, freq, dtIn) == select_dt_neuron_model(Fold(MulQ(bd, freq)), dtIn)

\* the value of neg while no negotiation has run in the last call
NoNeg ==
    [ran |-> FALSE, hangs |-> FALSE, pts_live |-> Q(0, 1, 0), dt_in |-> 0,
     aux |-> 0, flag |-> FALSE, iters |-> 0, loop_sel |-> 0, fallback_sel |-> 0,
     ret |-> 0, dt_out |-> 0]

\* the count stored as computed
KeepZero(c) == c

\* `if s_points == 0 { s_points = 1; }` (lib.rs:60-62, 68-70)
NonZero(c) == IF c = 0 THEN 1 ELSE c

\* round() of (whole + rest / 10^6) / num
RoundOf(pt, num) ==
    pt.whole \div num
    + (IF 2 * (pt.whole % num) + (2 * pt.rest) \div Million >= num THEN 1 ELSE 0)

\* (pts_burst / (burst_duration * freq)).round() as usize (lib.rs:59): the
\* sentinel -1.0 gives a negative quotient, which the cast takes to 0
RoundedRatio(ret, pl) ==
    IF ret = 0 THEN 0 ELSE RoundOf(PtsTimes(ret, pl.den), pl.num)

\* round() of pn / pd, then max(1)
RoundMax1(pn, pd) ==
    IF pn \div pd + (IF 2 * (pn % pd) >= pd THEN 1 ELSE 0) > 1
    THEN pn \div pd + (IF 2 * (pn % pd) >= pd THEN 1 ELSE 0)
    ELSE 1

\* ((period_seconds / dt).round() as usize).max(1) (lib.rs:65): dt = 0 gives
\* +inf, which the cast takes to usize::MAX
PeriodOverDt(period, h) ==
    IF h = 0 THEN USIZE_MAX
    ELSE CASE period.exp10 \in -4..3 ->
              RoundMax1(period.num * 10^(period.exp10 + 4), period.den * h)

\* lib.rs:59-63 with the outcome r of set_pts_burst; a call that does not
\* return writes nothing
BurstBranch(self, r) ==
    IF r.hangs
    THEN [s_points |-> self.s_points, dt |-> self.dt, hung |-> TRUE, neg |-> r]
    ELSE [s_points |-> NonZero(NonZero(RoundedRatio(r.ret, r.pts_live))),
          dt |-> r.dt_out, hung |-> FALSE, neg |-> r]

\* update_burst_settings (lib.rs:51-71), on the instance `self`: the fields
\* it may write (s_points, dt), whether it returns, what the negotiator did
update_burst_settings(self) ==
    IF self.period_seconds.num <= 0
    THEN [s_points |-> 1, dt |-> self.dt, hung |-> FALSE, neg |-> NoNeg]
    ELSE IF self.burst_duration.num > 0
         THEN BurstBranch(self, set_pts_burst(self.burst_duration,
                                              Recip(self.period_seconds), self.dt))
         ELSE [s_points |-> NonZero(PeriodOverDt(self.period_seconds, self.dt)),
               dt |-> self.dt, hung |-> FALSE, neg |-> NoNeg]

----------------------------------------------------------------------------
(* Configuration documents *)

Keys == { "x", "y", "z", "e", "mu", "s", "vh", "time_increment",
          "burst_duration", "period_seconds" }

Blank ==
    [x |-> 0, y |-> 0, z |-> 0, e |-> 0, mu |-> 0, s |-> 0, vh |-> 0,
     time_increment |-> 0, burst_duration |-> Q(0, 1, 0),
     period_seconds |-> Q(0, 1, 0)]

\* a document: the keys it holds and their values (the values of the keys it
\* does not hold are never read)
Doc(keys, val) == [keys |-> keys, val |-> val]

\* the documents set_config is called with
Docs ==
    << Doc({}, Blank),
       Doc({"x"}, [Blank EXCEPT !.x = 1000]),
       Doc({"x", "y", "z"}, [Blank EXCEPT !.x = 1000, !.y = -3000, !.z = 3000]),
       Doc({"e", "mu", "s", "vh", "foo"},
           [Blank EXCEPT !.e = 3000, !.mu = 10, !.s = 3900, !.vh = 1100]),
       Doc({"time_increment", "burst_duration"},
           [Blank EXCEPT !.time_increment = -DtUnit, !.burst_duration = Q(0, 1, 0)]),
       Doc({"time_increment", "period_seconds"},
           [Blank EXCEPT !.time_increment = 20, !.period_seconds = Q(0, 1, 0)]),
       Doc({"time_increment", "burst_duration", "period_seconds"},
           [Blank EXCEPT !.time_increment = 1, !.burst_duration = Q(-1, 1, 0),
                         !.period_seconds = Q(1, 1, 1)]),
       Doc({"burst_duration"}, [Blank EXCEPT !.burst_duration = Q(600, 1, 0)]),
       Doc({"burst_duration"}, [Blank EXCEPT !.burst_duration = Q(500, 1, 0)]),
       Doc({"burst_duration"}, [Blank EXCEPT !.burst_duration = Q(1, 1, -320)]) >>

\* the values and port names set_input is called with
InputValues == { 0, 1000 }
InputNames == { "i_syn", "x" }

----------------------------------------------------------------------------
(* The instance, lib.rs:9-96 *)

\* HindmarshRosev2Rust::new (lib.rs:28-49)
new ==
    [x |-> -901, y |-> -3159, z |-> 3248, input_syn |-> 0,
     e |-> 3250, mu |-> 6, s |-> 4000, vh |-> 1000,
     dt |-> 15, burst_duration |-> Q(1, 1, 0), s_points |-> 1,
     period_seconds |-> Q(1, 1, -3),
     cfg_x |-> -901, cfg_y |-> -3159, cfg_z |-> 3248]

\* the instance as a record of its fields
Self ==
    [x |-> x, y |-> y, z |-> z, input_syn |-> input_syn,
     e |-> e, mu |-> mu, s |-> s, vh |-> vh,
     dt |-> dt, burst_duration |-> burst_duration, s_points |-> s_points,
     period_seconds |-> period_seconds,
     cfg_x |-> cfg_x, cfg_y |-> cfg_y, cfg_z |-> cfg_z]

\* get with `unwrap_or_default()` in place of `unwrap_or(default)`
GetOrBlank(doc, key, default) == doc.val[key]

\* the closure `get` of set_config (lib.rs:74-76)
get(doc, key, default) == IF key \in doc.keys THEN doc.val[key] ELSE default

\* lib.rs:77-87: the state triple, written only when it differs from the
\* last applied one
ApplyTriple(self, doc) ==
    LET cx == get(doc, "x", self.x)
        cy == get(doc, "y", self.y)
        cz == get(doc, "z", self.z)
    IN IF << cx, cy, cz >> # << self.cfg_x, self.cfg_y, self.cfg_z >>
       THEN [self EXCEPT !.cfg_x = cx, !.cfg_y = cy, !.cfg_z = cz,
                         !.x = cx, !.y = cy, !.z = cz]
       ELSE self

\* lib.rs:88-92: the parameters and the step size
ApplyParams(self, doc) ==
    [self EXCEPT !.e = get(doc, "e", @), !.mu = get(doc, "mu", @),
                 !.s = get(doc, "s", @), !.vh = get(doc, "vh", @),
                 !.dt = Max0(get(doc, "time_increment", @))]

\* lib.rs:93-94: the timing
ApplyTiming(self, doc) ==
    [self EXCEPT !.burst_duration = get(doc, "burst_duration", @),
                 !.period_seconds = get(doc, "period_seconds", @)]

\* the instance after update_burst_settings produced u
Written(self, u) ==
    [self |-> [self EXCEPT !.s_points = u.s_points, !.dt = u.dt],
     hung |-> u.hung, neg |-> u.neg]

\* lib.rs:95: the call of update_burst_settings
Renegotiate(self) == Written(self, update_burst_settings(self))

\* set_config with update_burst_settings called before lines 93-94 instead of
\* after them
SetConfigStale(self, doc) ==
    [Renegotiate(ApplyParams(ApplyTriple(self, doc), doc))
        EXCEPT !.self = ApplyTiming(@, doc)]

\* set_config (lib.rs:73-96)
set_config(self, doc) ==
    Renegotiate(ApplyTiming(ApplyParams(ApplyTriple(self, doc), doc), doc))

----------------------------------------------------------------------------
(* The calls the host makes *)

Store(self) ==
    /\ x' = self.x /\ y' = self.y /\ z' = self.z
    /\ input_syn' = self.input_syn
    /\ e' = self.e /\ mu' = self.mu /\ s' = self.s /\ vh' = self.vh
    /\ dt' = self.dt /\ burst_duration' = self.burst_duration
    /\ s_points' = self.s_points /\ period_seconds' = self.period_seconds
    /\ cfg_x' = self.cfg_x /\ cfg_y' = self.cfg_y /\ cfg_z' = self.cfg_z

\* the fields right after construction
Fresh(self) ==
    /\ x = self.x /\ y = self.y /\ z = self.z
    /\ input_syn = self.input_syn
    /\ e = self.e /\ mu = self.mu /\ s = self.s /\ vh = self.vh
    /\ dt = self.dt /\ burst_duration = self.burst_duration
    /\ s_points = self.s_points /\ period_seconds = self.period_seconds
    /\ cfg_x = self.cfg_x /\ cfg_y = self.cfg_y /\ cfg_z = self.cfg_z

\* create (lib.rs:382-385)
Init ==
    /\ Fresh(new)
    /\ hung = FALSE /\ lastDoc = 0 /\ streak = 0
    /\ nCfg = 0 /\ nTick = 0 /\ applied = 0 /\ neg = NoNeg

\* the outcome r of a call that renegotiates becomes the state
Commit(r) ==
    /\ Store(r.self)
    /\ hung' = r.hung
    /\ neg' = r.neg

\* set_config_json (lib.rs:412-421) with document Docs[d]
SetConfig(d) ==
    /\ ~hung
    /\ nCfg < MaxCfg
    /\ Commit(set_config(Self, Docs[d]))
    /\ lastDoc' = d
    /\ streak' = IF streak > 0 /\ lastDoc = d THEN streak + 1 ELSE 1
    /\ nCfg' = nCfg + 1
    /\ UNCHANGED << nTick, applied >>

\* set_input (lib.rs:423-434): only the port i_syn is written
SetInput(name, v) ==
    /\ ~hung
    /\ input_syn' = IF name = "i_syn" THEN v ELSE input_syn
    /\ streak' = 0
    /\ UNCHANGED << x, y, z, e, mu, s, vh, dt, burst_duration, s_points,
                    period_seconds, cfg_x, cfg_y, cfg_z, hung, lastDoc, nCfg,
                    nTick, applied, neg >>

\* lib.rs:164-166: the state after the last pass
Advance(r) == x' = r.state[1] /\ y' = r.state[2] /\ z' = r.state[3]

\* process (lib.rs:98-168, 436-442)
Process ==
    /\ ~hung
    /\ nTick < MaxTicks
    /\ Advance(Iterate(<< x, y, z >>, StepsOf(s_points), dt, Self))
    /\ applied' = StepsOf(s_points)
    /\ streak' = 0
    /\ nTick' = nTick + 1
    /\ UNCHANGED << input_syn, e, mu, s, vh, dt, burst_duration, s_points,
                    period_seconds, cfg_x, cfg_y, cfg_z, hung, lastDoc, nCfg, neg >>

Next ==
    \/ \E d \in 1..Len(Docs) : SetConfig(d)
    \/ \E name \in InputNames, v \in InputValues : SetInput(name, v)
    \/ Process

Spec == Init /\ [][Next]_vars

----------------------------------------------------------------------------
(* The negotiator alone: update_burst_settings entered with the timing a      *)
(* configuration has just written (lib.rs:92-95), over a wider set of inputs  *)

NegBursts ==
    { Q(-1, 1, 0), Q(0, 1, 0), Q(1, 1, -320), Q(1, 1, -1), Q(1, 1, 0),
      Q(3, 1, 0), Q(45, 1, -1), Q(100, 1, 0), Q(287, 1, 0), Q(290, 1, 0),
      Q(500, 1, 0), Q(577, 1, 0), Q(578, 1, 0), Q(600, 1, 0), Q(8789, 1, -3) }

NegPeriods ==
    { Q(-1, 1, 0), Q(0, 1, 0), Q(1, 1, -3), Q(2, 1, -3), Q(1, 1, -2), Q(1, 1, 0) }

NegDts == { 0, 15, 1000 }

\* pts_live is one the comparisons of the negotiator are computed for
Modelled(pl) ==
    \/ pl.exp10 = 0 /\ pl.den <= 1000 /\ pl.num <= Million
    \/ pl.exp10 <= -F64_MAX_10_EXP /\ RatioIsInf(TableLen, pl)

InitNeg ==
    /\ \E bd \in NegBursts, ps \in NegPeriods, h \in NegDts :
          /\ (bd.num > 0 /\ ps.num > 0) => Modelled(Fold(MulQ(bd, Recip(ps))))
          /\ Fresh([new EXCEPT !.burst_duration = bd, !.period_seconds = ps,
                               !.dt = h])
    /\ hung = FALSE /\ lastDoc = 0 /\ streak = 0
    /\ nCfg = 0 /\ nTick = 0 /\ applied = 0 /\ neg = NoNeg

\* lib.rs:95
Negotiate ==
    /\ nCfg = 0
    /\ Commit(Renegotiate(Self))
    /\ nCfg' = 1
    /\ UNCHANGED << lastDoc, streak, nTick, applied >>

NextNeg == Negotiate

SpecNeg == InitNeg /\ [][NextNeg]_vars

----------------------------------------------------------------------------
(* Properties *)

\* C1 (as stated): in every reachable state the stored sub-step count
\* s_points is an integer in [1, 10000].
C1_StoredCountCapped == s_points \in 1..10000

\* C1 (amended): the stored s_points is an integer of at least 1; it is not
\* capped when it is stored.
C1_StoredCountAtLeastOne == s_points \in Nat /\ s_points >= 1

C1_UncappedCountStored == nCfg >= 1 /\ ~hung /\ s_points > 10000

\* C2: in every reachable state the integration step size dt is strictly
\* greater than 0, also after a configuration whose time_increment is zero or
\* negative.
C2_DtPositive == dt > 0

\* C3: set_config(C) called twice in succession leaves x, y, z, e, mu, s, vh,
\* dt, burst_duration, period_seconds and s_points as the first call left them.
C3_Idempotent ==
    [][streak' >= 2 =>
          /\ x' = x /\ y' = y /\ z' = z
          /\ e' = e /\ mu' = mu /\ s' = s /\ vh' = vh
          /\ dt' = dt
          /\ burst_duration' = burst_duration
          /\ period_seconds' = period_seconds
          /\ s_points' = s_points]_vars

C3_AppliedTwice ==
    /\ streak >= 2
    /\ Docs[lastDoc].keys \cap {"x", "time_increment", "burst_duration"} # {}

\* C4: when set_config(C) is applied, process and set_input calls follow, and
\* set_config(C) is applied again, the second application leaves x, y and z as
\* the ticks left them.
C4_RedundantPushKeepsState ==
    [][(nCfg' = nCfg + 1 /\ lastDoc' = lastDoc) =>
          (x' = x /\ y' = y /\ z' = z)]_vars

\* C5 (as stated): set_config leaves the field of every recognised key that
\* is missing from the document at its previous value, dt included.
C5_MissingKeysRetainAll ==
    [][nCfg' = nCfg + 1 =>
          /\ "x" \notin Docs[lastDoc'].keys => x' = x
          /\ "y" \notin Docs[lastDoc'].keys => y' = y
          /\ "z" \notin Docs[lastDoc'].keys => z' = z
          /\ "e" \notin Docs[lastDoc'].keys => e' = e
          /\ "mu" \notin Docs[lastDoc'].keys => mu' = mu
          /\ "s" \notin Docs[lastDoc'].keys => s' = s
          /\ "vh" \notin Docs[lastDoc'].keys => vh' = vh
          /\ "time_increment" \notin Docs[lastDoc'].keys => dt' = dt
          /\ "burst_duration" \notin Docs[lastDoc'].keys =>
                 burst_duration' = burst_duration
          /\ "period_seconds" \notin Docs[lastDoc'].keys =>
                 period_seconds' = period_seconds]_vars

\* C5 (amended): set_config leaves x, y, z, e, mu, s, vh, burst_duration and
\* period_seconds at their previous values when their keys are missing; with
\* time_increment missing, dt keeps its previous value unless the negotiator
\* runs and selects a table entry, and then dt is that entry's step size.
C5_MissingKeysRetain ==
    [][nCfg' = nCfg + 1 =>
          /\ "x" \notin Docs[lastDoc'].keys => x' = x
          /\ "y" \notin Docs[lastDoc'].keys => y' = y
          /\ "z" \notin Docs[lastDoc'].keys => z' = z
          /\ "e" \notin Docs[lastDoc'].keys => e' = e
          /\ "mu" \notin Docs[lastDoc'].keys => mu' = mu
          /\ "s" \notin Docs[lastDoc'].keys => s' = s
          /\ "vh" \notin Docs[lastDoc'].keys => vh' = vh
          /\ "burst_duration" \notin Docs[lastDoc'].keys =>
                 burst_duration' = burst_duration
          /\ "period_seconds" \notin Docs[lastDoc'].keys =>
                 period_seconds' = period_seconds
          /\ "time_increment" \notin Docs[lastDoc'].keys =>
                 IF neg'.ran /\ ~neg'.hangs /\ neg'.ret # 0
                 THEN dt' = dts[neg'.ret]
                 ELSE dt' = dt]_vars

C5_EmptyDocumentRewritesDt ==
    /\ nCfg >= 1 /\ lastDoc = 1
    /\ x = new.x /\ e = new.e
    /\ neg.ran /\ neg.ret # 0 /\ dt = dts[neg.ret] /\ dt # neg.dt_in

\* C6 (as stated): whenever select_dt_neuron_model writes a table step size
\* into dt and returns its achievable-points value, that value is strictly
\* greater than the scaled request aux held when the search stops.
C6_ReturnedAboveFinalAux ==
    (neg.ran /\ ~neg.hangs /\ neg.ret # 0) =>
        LET pt == PtsTimes(neg.ret, neg.pts_live.den)
        IN  pt.whole > neg.aux \/ (pt.whole = neg.aux /\ pt.rest > 0)

\* C6 (amended): whenever the near-integer test accepted the candidate, the
\* achievable-points value returned is strictly greater than the scaled
\* request aux held when the search stops.
C6_AcceptedAboveAux ==
    (neg.ran /\ ~neg.hangs /\ neg.flag) =>
        /\ neg.ret # 0
        /\ dt = dts[neg.ret]
        /\ LET pt == PtsTimes(neg.ret, neg.pts_live.den)
           IN  pt.whole > neg.aux \/ (pt.whole = neg.aux /\ pt.rest > 0)

C6_AcceptedOnLaterMultiple ==
    neg.ran /\ neg.flag /\ neg.iters >= 2 /\ dt = dts[neg.ret]

\* C7: when the search never finds an entry whose achievable points exceed
\* aux, in particular whenever pts_live is at least the largest achievable
\* points of the table, select_dt_neuron_model returns the sentinel and leaves
\* dt at its previous value.
C7_FailsOpen ==
    /\ (neg.ran /\ ~neg.hangs /\ neg.loop_sel = 0 /\ neg.fallback_sel = 0) =>
           (neg.ret = 0 /\ dt = neg.dt_in)
    /\ (neg.ran /\ ~Exceeds(1, neg.pts_live.num, neg.pts_live.den)) =>
           (neg.loop_sel = 0 /\ neg.fallback_sel = 0 /\ neg.ret = 0
            /\ dt = neg.dt_in)

C7_NothingFound ==
    /\ neg.ran /\ neg.ret = 0 /\ neg.iters = 0
    /\ dt = neg.dt_in /\ dt > 0

\* C8: one process call performs s_points clamped to [1, 10000] integrator
\* applications, at least 1 and at most 10000.
C8_BoundedWork ==
    [][nTick' = nTick + 1 =>
          /\ applied' \in 1..10000
          /\ applied' = IF s_points < 1 THEN 1
                        ELSE IF s_points > 10000 THEN 10000 ELSE s_points]_vars

C8_CapApplied == nTick >= 1 /\ s_points > 10000 /\ applied = 10000

\* C9: for every burst_duration > 0 and period_seconds > 0 the loop of
\* select_dt_neuron_model exits, so set_config runs to completion.
C9_Terminates ==
    (burst_duration.num > 0 /\ period_seconds.num > 0) => (~hung /\ ~neg.hangs)

\* C10: the fallback scan never selects an entry; whenever it runs aux is at
\* least pts[0], and the result is the sentinel (dt unchanged) or the
\* candidate the loop recorded for an earlier, smaller multiple.
C10_FallbackSelectsNothing ==
    (neg.ran /\ ~neg.hangs /\ ~neg.flag) =>
        /\ neg.fallback_sel = 0
        /\ ~Exceeds(1, neg.aux, neg.pts_live.den)
        /\ \/ neg.ret = 0 /\ dt = neg.dt_in
           \/ /\ neg.ret # 0 /\ neg.ret = neg.loop_sel /\ neg.iters >= 2
              /\ dt = dts[neg.ret]

C10_StaleCandidateReturned ==
    neg.ran /\ ~neg.hangs /\ ~neg.flag /\ neg.ret # 0 /\ neg.iters >= 2

============================================================================
